---- MODULE Spec2Model ----
(***************************************************************************)
(* Model of the directory-to-markdown converter (src/main.py).             *)
(*                                                                         *)
(* A string is a sequence of one-character strings, a file name is a       *)
(* string, a path is a sequence of file names.  The file system below the  *)
(* input directory is a function from root-relative paths (the root is     *)
(* the empty path) to entries.                                             *)
(***************************************************************************)
EXTENDS Integers, Sequences, FiniteSets, TLC

VARIABLES fs, loc, rules, recursive, treeRes, filesRes,
          pc, outRel, f, disk, exists, todo, blocks, run, out1

vars == <<fs, loc, rules, recursive, treeRes, filesRes,
          pc, outRel, f, disk, exists, todo, blocks, run, out1>>

(***************************************************************************)
(* Bounds of the model.                                                    *)
(***************************************************************************)
MaxNodes == 3
MaxPatterns == 2

\* TextIOWrapper._CHUNK_SIZE: the text layer of an open file hands its pending
\* writes on in chunks of this many bytes, and decodes as many at a time
ChunkSize == 8192

\* the size of the buffer of the binary layer of the output file: open()
\* takes st_blksize of the file
BlockSize == 4096

\* the length of the text of a long file, and the piece that stands for it
LongLen == 9000
LongText == "x{9000}"

(***************************************************************************)
(* Strings.                                                                *)
(***************************************************************************)
\* Code points of the characters that occur in path strings; Python
\* compares strings by code point.
CharCode(c) ==
    CASE c = "." -> 46
      [] c = "/" -> 47
      [] c = "_" -> 95
      [] c = "a" -> 97
      [] c = "b" -> 98
      [] c = "c" -> 99
      [] c = "d" -> 100
      [] c = "e" -> 101
      [] c = "h" -> 104
      [] c = "m" -> 109
      [] c = "n" -> 110
      [] c = "o" -> 111
      [] c = "r" -> 114
      [] c = "t" -> 116

RECURSIVE StrLessFrom(_, _, _)
StrLessFrom(s, t, i) ==
    IF i > Len(t) THEN FALSE
    ELSE IF i > Len(s) THEN TRUE
    ELSE IF s[i] = t[i] THEN StrLessFrom(s, t, i + 1)
    ELSE CharCode(s[i]) < CharCode(t[i])

\* s < t for Python str
StrLess(s, t) == StrLessFrom(s, t, 1)

RECURSIVE Join(_)
\* "/".join(parts)
Join(parts) ==
    IF parts = <<>> THEN <<>>
    ELSE IF Len(parts) = 1 THEN parts[1]
    ELSE parts[1] \o <<"/">> \o Join(Tail(parts))

\* str(pathlib.Path) of an absolute path with the given parts
AbsStr(parts) == <<"/">> \o Join(parts)

\* str(pathlib.Path) of a relative path ("." for the empty one)
RelStr(parts) == IF parts = <<>> THEN <<".">> ELSE Join(parts)

(***************************************************************************)
(* fnmatch.fnmatch: shell-style wildcards, the whole string must match.    *)
(* Character classes are modelled without ranges.                          *)
(***************************************************************************)
RECURSIVE ScanClass(_, _)
\* index of the first "]" at or after j, Len(pat)+1 if there is none
ScanClass(pat, j) ==
    IF j > Len(pat) THEN j
    ELSE IF pat[j] = "]" THEN j
    ELSE ScanClass(pat, j + 1)

\* For a "[" at index i: the index of the "]" that closes the class, or
\* Len(pat)+1 when the class is not closed (the "[" is then a literal).
ClassEnd(pat, i) ==
    LET j0 == i + 1
        j1 == IF j0 <= Len(pat) /\ pat[j0] = "!" THEN j0 + 1 ELSE j0
        j2 == IF j1 <= Len(pat) /\ pat[j1] = "]" THEN j1 + 1 ELSE j1
    IN  ScanClass(pat, j2)

\* Does character c belong to the class pat[i..e], "[" at i and "]" at e?
InClass(pat, i, e, c) ==
    LET stuff == SubSeq(pat, i + 1, e - 1)
        neg == stuff[1] = "!"
        members == IF neg THEN {stuff[k] : k \in 2..Len(stuff)}
                   ELSE {stuff[k] : k \in 1..Len(stuff)}
    IN  IF neg THEN c \notin members ELSE c \in members

RECURSIVE GlobFrom(_, _, _, _)
GlobFrom(pat, i, s, j) ==
    IF i > Len(pat) THEN j > Len(s)
    ELSE IF pat[i] = "*"
         THEN GlobFrom(pat, i + 1, s, j)
              \/ (j <= Len(s) /\ GlobFrom(pat, i, s, j + 1))
    ELSE IF pat[i] = "?"
         THEN j <= Len(s) /\ GlobFrom(pat, i + 1, s, j + 1)
    ELSE IF pat[i] = "[" /\ ClassEnd(pat, i) <= Len(pat)
         THEN j <= Len(s) /\ InClass(pat, i, ClassEnd(pat, i), s[j])
              /\ GlobFrom(pat, ClassEnd(pat, i) + 1, s, j + 1)
    ELSE j <= Len(s) /\ s[j] = pat[i] /\ GlobFrom(pat, i + 1, s, j + 1)

fnmatch(s, pat) == GlobFrom(pat, 1, s, 1)

(***************************************************************************)
(* re.Pattern.search: unanchored search.  The regular expressions of the   *)
(* model are sequences of literals, ".", "^", "$" and escaped characters.  *)
(***************************************************************************)
RECURSIVE ReFrom(_, _, _, _)
ReFrom(re, k, s, j) ==
    IF k > Len(re) THEN TRUE
    ELSE IF re[k] = "^" THEN j = 1 /\ ReFrom(re, k + 1, s, j)
    ELSE IF re[k] = "$" THEN j = Len(s) + 1 /\ ReFrom(re, k + 1, s, j)
    ELSE IF re[k] = "." THEN j <= Len(s) /\ ReFrom(re, k + 1, s, j + 1)
    ELSE IF re[k] = "\\"
         THEN j <= Len(s) /\ s[j] = re[k + 1] /\ ReFrom(re, k + 2, s, j + 1)
    ELSE j <= Len(s) /\ s[j] = re[k] /\ ReFrom(re, k + 1, s, j + 1)

search(re, s) == \E j \in 1..(Len(s) + 1) : ReFrom(re, 1, s, j)

(***************************************************************************)
(* The selector.                                                           *)
(***************************************************************************)
\* the exclusion test of should_process_path on a path string
ExcludeHit(path_str, rs) ==
    \/ \E k \in 1..Len(rs.exclude_patterns) :
            fnmatch(path_str, rs.exclude_patterns[k])
    \/ \E k \in 1..Len(rs.exclude_regexes) :
            search(rs.exclude_regexes[k], path_str)

\* the inclusion test of should_process_path on a path string
IncludeHit(path_str, rs) ==
    \/ \E k \in 1..Len(rs.include_patterns) :
            fnmatch(path_str, rs.include_patterns[k])
    \/ \E k \in 1..Len(rs.include_regexes) :
            search(rs.include_regexes[k], path_str)

\* should_process_path with the inclusion test of a file made before the
\* exclusion test
should_process_path_IncludeFirst(path, rs, is_checking_dir) ==
    LET path_str == AbsStr(path)
        has_inclusion_patterns ==
            rs.include_patterns # <<>> \/ rs.include_regexes # <<>>
    IN  IF ~is_checking_dir /\ has_inclusion_patterns
        THEN IncludeHit(path_str, rs)
        ELSE ~ExcludeHit(path_str, rs)

\* should_process_path without the "or True" of line 56: a directory is
\* kept only if it matches an inclusion pattern
should_process_path_GateDirs(path, rs, is_checking_dir) ==
    LET path_str == AbsStr(path)
        has_inclusion_patterns ==
            rs.include_patterns # <<>> \/ rs.include_regexes # <<>>
    IN  IF ExcludeHit(path_str, rs) THEN FALSE
        ELSE IF has_inclusion_patterns THEN IncludeHit(path_str, rs)
        ELSE TRUE

\* should_process_path(path, ..., is_checking_dir); path is given by its
\* absolute parts
should_process_path(path, rs, is_checking_dir) ==
    LET path_str == AbsStr(path)
        has_inclusion_patterns ==
            rs.include_patterns # <<>> \/ rs.include_regexes # <<>>
    IN  IF ExcludeHit(path_str, rs) THEN FALSE
        ELSE IF is_checking_dir
             THEN ~has_inclusion_patterns \/ IncludeHit(path_str, rs) \/ TRUE
        ELSE IF has_inclusion_patterns THEN IncludeHit(path_str, rs)
        ELSE TRUE

(***************************************************************************)
(* The file system.  fs maps the root-relative path of every entry to      *)
(* [kind, mode]; the input directory itself is the empty path.  A          *)
(* directory of mode "noperm" cannot be listed, a file of mode "noperm"    *)
(* cannot be opened, a file of mode "binary" fails to decode within its    *)
(* first 1024 characters and one of mode "undecodable" after them.         *)
(***************************************************************************)
is_dir(p) == p \in DOMAIN fs /\ fs[p].kind = "dir"

is_file(p) == p \in DOMAIN fs /\ fs[p].kind = "file"

\* directory.iterdir() succeeds
Listable(p) == is_dir(p) /\ fs[p].mode = "ok"

\* the entries directory.iterdir() yields
iterdir(p) ==
    {q \in DOMAIN fs : Len(q) = Len(p) + 1 /\ SubSeq(q, 1, Len(p)) = p}

\* item.name
Name(p) == p[Len(p)]

(***************************************************************************)
(* generate_tree                                                           *)
(***************************************************************************)
\* The box-drawing pieces of lines 96-97, written in ASCII: U+251C, U+2514
\* and U+2502 become "|", "L" and "|", and U+2500 becomes "-".
Tee == "|-- "
Ell == "L-- "
Bar == "|   "
Blank == "    "

\* the sort key (not p.is_dir(), p.name) of line 76
TreeLess(x, y) ==
    IF is_dir(x) # is_dir(y) THEN is_dir(x)
    ELSE StrLess(Name(x), Name(y))

RECURSIVE TreeSort(_)
\* sorted(list(directory.iterdir()), key=...)
TreeSort(S) ==
    IF S = {} THEN <<>>
    ELSE LET m == CHOOSE x \in S : \A y \in S \ {x} : TreeLess(x, y)
         IN  <<m>> \o TreeSort(S \ {m})

\* the filter loop of lines 79-88: the items of a directory that are shown
Visible(root_dir, items, rs, rec, depth) ==
    SelectSeq(items,
        LAMBDA item :
            /\ ~(~rec /\ is_dir(item) /\ depth > 0)
            /\ should_process_path(root_dir \o item, rs, is_dir(item)))

\* the test of line 103: is the shown directory expanded?
Descend(rec, depth) == rec \/ depth = 0

RECURSIVE generate_tree_rec(_, _, _, _, _, _)
RECURSIVE TreeItems(_, _, _, _, _, _, _)

\* the loop of lines 91-104 from index i on: the lines appended to result,
\* the directories listed, and whether no listing raised
TreeItems(root_dir, visible, i, rs, rec, prefix, depth) ==
    IF i > Len(visible) THEN [ok |-> TRUE, lines |-> <<>>, listed |-> {}]
    ELSE
      LET item == visible[i]
          is_last == i = Len(visible)
          connector == IF is_last THEN Ell ELSE Tee
          next_prefix == IF is_last THEN Blank ELSE Bar
          line == [text |-> prefix \o <<connector>> \o Name(item),
                   item |-> item]
          sub == IF is_dir(item) /\ Descend(rec, depth)
                 THEN generate_tree_rec(root_dir, item, rs, rec,
                                        prefix \o <<next_prefix>>, depth + 1)
                 ELSE [ok |-> TRUE, lines |-> <<>>, listed |-> {}]
          rest == TreeItems(root_dir, visible, i + 1, rs, rec, prefix, depth)
      IN  IF ~sub.ok
          THEN [ok |-> FALSE, lines |-> <<line>> \o sub.lines,
                listed |-> sub.listed]
          ELSE [ok |-> rest.ok, lines |-> <<line>> \o sub.lines \o rest.lines,
                listed |-> sub.listed \cup rest.listed]

\* _generate_tree(directory, prefix, depth); iterdir raises on a directory
\* that cannot be listed
generate_tree_rec(root_dir, directory, rs, rec, prefix, depth) ==
    IF ~Listable(directory)
    THEN [ok |-> FALSE, lines |-> <<>>, listed |-> {}]
    ELSE
      LET items == TreeSort(iterdir(directory))
          visible_items == Visible(root_dir, items, rs, rec, depth)
          r == TreeItems(root_dir, visible_items, 1, rs, rec, prefix, depth)
      IN  [ok |-> r.ok, lines |-> r.lines,
           listed |-> {directory} \cup r.listed]

\* generate_tree(root_dir, ...): ok is FALSE when a listing raised; lines is
\* the list result, each line with the entry it stands for
generate_tree(root_dir, rs, rec) ==
    LET r == generate_tree_rec(root_dir, <<>>, rs, rec, <<>>, 0)
    IN  [ok |-> r.ok,
         lines |-> <<[text |-> Name(root_dir), item |-> <<>>]>> \o r.lines,
         listed |-> r.listed]

RECURSIVE JoinLines(_)
\* "\n".join(result)
JoinLines(lines) ==
    IF lines = <<>> THEN <<>>
    ELSE IF Len(lines) = 1 THEN lines[1].text
    ELSE lines[1].text \o <<"\n">> \o JoinLines(Tail(lines))

(***************************************************************************)
(* collect_files                                                           *)
(***************************************************************************)
\* line 136: the subdirectories os.walk is left to descend into
KeptDirs(root_dir, top, rs) ==
    {d \in iterdir(top) : is_dir(d) /\ should_process_path(root_dir \o d, rs, TRUE)}

\* lines 144-152: the files of one directory that are appended to result
KeptFiles(root_dir, top, rs) ==
    {file \in iterdir(top) :
        ~is_dir(file) /\ should_process_path(root_dir \o file, rs, FALSE)}

\* os.walk stopped after its first directory
WalkListed_TopOnly(root_dir, top, rs) ==
    IF ~Listable(top) THEN {} ELSE {top}

RECURSIVE WalkListed(_, _, _)
\* the directories os.walk yields from top: a directory whose scandir
\* raises is skipped without an error (onerror is None)
WalkListed(root_dir, top, rs) ==
    IF ~Listable(top) THEN {}
    ELSE {top} \cup UNION {WalkListed(root_dir, d, rs) :
                               d \in KeptDirs(root_dir, top, rs)}

\* the loop of lines 132-152: every file appended to result
WalkFiles(root_dir, rs) ==
    UNION {KeptFiles(root_dir, top, rs) : top \in WalkListed(root_dir, <<>>, rs)}

\* lines 155-162: the non-recursive branch
FlatFiles(root_dir, rs) ==
    {item \in iterdir(<<>>) :
        is_file(item) /\ should_process_path(root_dir \o item, rs, FALSE)}

RECURSIVE SortFiles(_)
\* sorted(result, key=lambda x: str(x[1]))
SortFiles(S) ==
    IF S = {} THEN <<>>
    ELSE LET m == CHOOSE x \in S :
                     \A y \in S \ {x} : StrLess(RelStr(x), RelStr(y))
         IN  <<m>> \o SortFiles(S \ {m})

\* the (file_path, relative_path) tuple of a file
FileRecord(root_dir, p) == [file_path |-> root_dir \o p, relative_path |-> p]

\* collect_files(directory, ...): ok is FALSE when the call raised
collect_files(root_dir, rs, rec) ==
    IF rec
    THEN LET s == SortFiles(WalkFiles(root_dir, rs))
         IN  [ok |-> TRUE,
              files |-> [k \in 1..Len(s) |-> FileRecord(root_dir, s[k])],
              listed |-> WalkListed(root_dir, <<>>, rs)]
    ELSE IF ~Listable(<<>>)
         THEN [ok |-> FALSE, files |-> <<>>, listed |-> {}]
         ELSE LET s == SortFiles(FlatFiles(root_dir, rs))
              IN  [ok |-> TRUE,
                   files |-> [k \in 1..Len(s) |-> FileRecord(root_dir, s[k])],
                   listed |-> {<<>>}]

(***************************************************************************)
(* Inputs: directory trees, rule sets, locations.                          *)
(***************************************************************************)
Names == {<<"a">>, <<"b">>}

\* where the input directory lies: /t/r or /h/r
Locations == {<<<<"t">>, <<"r">>>>, <<<<"h">>, <<"r">>>>}

\* "*/a/*" (everything below a directory a) and "*[!a]" (every path that
\* does not end in a)
GlobPatterns ==
    {<<"*", "/", "a", "/", "*">>, <<"*", "[", "!", "a", "]">>}

\* "t" (every path below /t) and "/a$" (every entry of name a)
RegexPatterns ==
    {<<"t">>, <<"/", "a", "$">>}

RECURSIVE ListOf(_)
\* the elements of the set S in a list
ListOf(S) ==
    IF S = {} THEN <<>>
    ELSE LET x == CHOOSE y \in S : TRUE IN <<x>> \o ListOf(S \ {x})

\* the lists of distinct patterns of S, one for every choice of patterns
ListsOf(S) == {ListOf(T) : T \in SUBSET S}

\* the rule sets of MaxPatterns or fewer patterns
RuleSets ==
    {r \in [include_patterns : ListsOf(GlobPatterns),
            include_regexes : ListsOf(RegexPatterns),
            exclude_patterns : ListsOf(GlobPatterns),
            exclude_regexes : ListsOf(RegexPatterns)] :
        Len(r.include_patterns) + Len(r.include_regexes)
            + Len(r.exclude_patterns) + Len(r.exclude_regexes) <= MaxPatterns}

NoRules ==
    [include_patterns |-> <<>>, include_regexes |-> <<>>,
     exclude_patterns |-> <<>>, exclude_regexes |-> <<>>]

\* the entries that can be added to the set T of entries
Grow(T) ==
    {p \o <<nm>> : p \in T \cup {<<>>}, nm \in Names} \ T

RECURSIVE Shapes(_)
\* the sets of at most n paths that are closed under parent
Shapes(n) ==
    IF n = 0 THEN {{}}
    ELSE Shapes(n - 1) \cup
         UNION {{T \cup {q} : q \in Grow(T)} : T \in Shapes(n - 1)}

HasChild(T, p) ==
    \E q \in T : Len(q) = Len(p) + 1 /\ SubSeq(q, 1, Len(p)) = p

\* the file systems of shape T: an entry with children is a directory, the
\* root is a directory, dmodes and fmodes are the modes to choose from
FsOfShape(T, dmodes, fmodes) ==
    {g \in [T \cup {<<>>} -> ([kind : {"dir"}, mode : dmodes]
                               \cup [kind : {"file"}, mode : fmodes])] :
        /\ g[<<>>].kind = "dir"
        /\ \A p \in T : HasChild(T, p) => g[p].kind = "dir"}

FileSystems(dmodes, fmodes) ==
    UNION {FsOfShape(T, dmodes, fmodes) : T \in Shapes(MaxNodes)}

NoTree == [called |-> FALSE, ok |-> FALSE, lines |-> <<>>, listed |-> {}]

NoFiles == [called |-> FALSE, ok |-> FALSE, files |-> <<>>, listed |-> {}]

Returned(r) == [called |-> TRUE] @@ r

(***************************************************************************)
(* generate_tree and collect_files called on their own.                    *)
(***************************************************************************)
\* the output directory lies outside the input directory
Outside == [inside |-> FALSE, rel |-> <<>>]

NoArtifact == [exists |-> FALSE, disk |-> <<>>]

\* the output file f between open and close: the text layer holds the writes
\* it has not handed on (pending), the binary layer those it has not written
\* (buffer); both are empty when the file is not open
Closed == [pending |-> <<>>, buffer |-> <<>>]

RunIdle ==
    /\ outRel = Outside
    /\ f = Closed
    /\ disk = <<>>
    /\ exists = FALSE
    /\ todo = <<>>
    /\ blocks = 0
    /\ run = 1
    /\ out1 = NoArtifact

InitSel ==
    /\ fs \in FileSystems({"ok"}, {"text"})
    /\ loc \in Locations
    /\ rules \in RuleSets
    /\ recursive \in BOOLEAN
    /\ treeRes = NoTree
    /\ filesRes = NoFiles
    /\ pc = "api"
    /\ RunIdle

CallGenerateTree ==
    /\ pc = "api"
    /\ ~treeRes.called
    /\ treeRes' = Returned(generate_tree(loc, rules, recursive))
    /\ UNCHANGED <<fs, loc, rules, recursive, filesRes, pc, outRel, f,
                   disk, exists, todo, blocks, run, out1>>

CallCollectFiles ==
    /\ pc = "api"
    /\ ~filesRes.called
    /\ filesRes' = Returned(collect_files(loc, rules, recursive))
    /\ UNCHANGED <<fs, loc, rules, recursive, treeRes, pc, outRel, f,
                   disk, exists, todo, blocks, run, out1>>

NextApi == CallGenerateTree \/ CallCollectFiles

SpecSel == InitSel /\ [][NextApi]_vars

(***************************************************************************)
(* collect_files on trees with directories that cannot be listed.          *)
(***************************************************************************)
InitWalk ==
    /\ fs \in FileSystems({"ok", "noperm"}, {"text"})
    /\ loc \in Locations
    /\ rules \in RuleSets
    /\ recursive \in BOOLEAN
    /\ treeRes = NoTree
    /\ filesRes = NoFiles
    /\ pc = "api"
    /\ RunIdle

SpecWalk == InitWalk /\ [][NextApi]_vars

(***************************************************************************)
(* main and create_markdown.  f is the output file while it is open: the   *)
(* writes that its two buffers hold; disk is what the file holds for a     *)
(* reader, exists says whether the artifact is there.  The texts are       *)
(* sequences of pieces; the backquote of the labels and fences is written  *)
(* "'", and "x{9000}" stands for 9000 characters x.                        *)
(***************************************************************************)
\* f"{input_dir.name}_content.md"
ArtName(root_dir) ==
    Name(root_dir) \o <<"_", "c", "o", "n", "t", "e", "n", "t", ".", "m", "d">>

\* the root-relative path of the artifact when the output directory lies in
\* the input directory
ArtPath == outRel.rel \o <<ArtName(loc)>>

IsArtifact(p) == outRel.inside /\ p = ArtPath

\* open('a') in place of open('w'): the old content is kept
OpenedAppend(old) == old

\* the content of the output file right after open('w') (line 178), old
\* being what it held before
Opened(old) == <<>>

\* the number of bytes of a piece of text in UTF-8, the encoding of the output
\* file; the connectors of the tree are box-drawing characters of 3 bytes
PieceBytes(x) ==
    CASE x = "# Directory Structure\n\n" -> 23
      [] x = "# File Contents\n\n" -> 17
      [] x = "/* Binary file not shown */" -> 27
      [] x = "/* Error reading file: " -> 23
      [] x = "'utf-8' codec can't decode byte 0xff in position " -> 49
      [] x = ": invalid start byte" -> 20
      [] x = LongText -> LongLen
      [] x \in {Tee, Ell} -> 10
      [] x = Bar -> 6
      [] x = "\n'''\n\n" -> 6
      [] x \in {"'''\n", Blank} -> 4
      [] x \in {"'''", " */"} -> 3
      [] x = "'\n" -> 2
      [] OTHER -> 1

RECURSIVE ByteLen(_)
\* len(text.encode('utf-8'))
ByteLen(text) ==
    IF Len(text) = 0 THEN 0
    ELSE IF Len(text) = 1 THEN PieceBytes(text[1])
    ELSE LET h == Len(text) \div 2
         IN  ByteLen(SubSeq(text, 1, h)) + ByteLen(SubSeq(text, h + 1, Len(text)))

\* the output file with what a reader finds in it
File == [pending |-> f.pending, buffer |-> f.buffer, disk |-> disk]

\* BufferedWriter.write(data): data that fits into the free part of the
\* buffer is kept there; otherwise the buffer is written out, and data goes
\* to the file if it is larger than the buffer and into the buffer if not
buffer_write(s, data) ==
    IF ByteLen(data) <= BlockSize - ByteLen(s.buffer)
    THEN [s EXCEPT !.buffer = @ \o data]
    ELSE IF ByteLen(data) > BlockSize
    THEN [s EXCEPT !.disk = @ \o s.buffer \o data, !.buffer = <<>>]
    ELSE [s EXCEPT !.disk = @ \o s.buffer, !.buffer = data]

\* f.write(text): the pending writes are handed on before text would take
\* them over ChunkSize bytes, and again once they have reached ChunkSize
write(s, text) ==
    LET s1 == IF ByteLen(s.pending) + ByteLen(text) > ChunkSize
              THEN [buffer_write(s, s.pending) EXCEPT !.pending = text]
              ELSE [s EXCEPT !.pending = @ \o text]
    IN  IF ByteLen(s1.pending) >= ChunkSize
        THEN [buffer_write(s1, s1.pending) EXCEPT !.pending = <<>>]
        ELSE s1

RECURSIVE WriteAll(_, _)
\* the calls f.write(texts[1]), f.write(texts[2]), ... in turn, by halves of
\* the list to keep the evaluation shallow
WriteAll(s, texts) ==
    IF Len(texts) = 0 THEN s
    ELSE IF Len(texts) = 1 THEN write(s, texts[1])
    ELSE LET h == Len(texts) \div 2
             rest == SubSeq(texts, h + 1, Len(texts))
             s1 == WriteAll(s, SubSeq(texts, 1, h))
         IN  IF s1 = s THEN WriteAll(s, rest) ELSE WriteAll(s1, rest)

\* what the file holds once f is closed: all that was written
close(s) == s.disk \o s.buffer \o s.pending

RECURSIVE LastDot(_, _)
\* name.rfind('.') from index k down, 0 if there is none
LastDot(name, k) ==
    IF k = 0 THEN 0
    ELSE IF name[k] = "." THEN k
    ELSE LastDot(name, k - 1)

\* file_path.suffix.lstrip('.')
FileExt(name) ==
    LET i == LastDot(name, Len(name))
    IN  IF 1 < i /\ i < Len(name) THEN SubSeq(name, i + 1, Len(name)) ELSE <<>>

\* Whether regular file p can be opened for reading.
Openable(p) == IsArtifact(p) \/ fs[p].mode # "noperm"

\* The bytes of regular file p: text is the valid UTF-8 text it starts with,
\* bad says whether the byte 0xff follows.  A text file holds its own name, a
\* long one LongLen characters x, a binary one the byte 0xff alone, an
\* undecodable one the long text and then 0xff; the artifact holds d.
Content(p, d) ==
    IF IsArtifact(p) THEN [text |-> d, bad |-> FALSE]
    ELSE CASE fs[p].mode = "long" -> [text |-> <<LongText>>, bad |-> FALSE]
           [] fs[p].mode = "binary" -> [text |-> <<>>, bad |-> TRUE]
           [] fs[p].mode = "undecodable" -> [text |-> <<LongText>>, bad |-> TRUE]
           [] OTHER -> [text |-> Name(p), bad |-> FALSE]

\* lines 110-117 on content c: f.read(1024) decodes the first ChunkSize bytes
\* of the file, and UnicodeDecodeError is raised if the bad byte is among them
is_binary_file(c) == c.bad /\ ByteLen(c.text) < ChunkSize

Digits == <<"0", "1", "2", "3", "4", "5", "6", "7", "8", "9">>

RECURSIVE Decimal(_)
\* str(n) of a natural number
Decimal(n) ==
    IF n < 10 THEN <<Digits[n + 1]>>
    ELSE Decimal(n \div 10) \o <<Digits[(n % 10) + 1]>>

\* str(e) of the UnicodeDecodeError that read() raises on the byte 0xff at
\* offset pos
ErrorText(pos) ==
    <<"'utf-8' codec can't decode byte 0xff in position ">>
        \o Decimal(pos) \o <<": invalid start byte">>

\* lines 180-181: the two writes before generate_tree is called
TreeHead == << <<"# Directory Structure\n\n">>, <<"'''\n">> >>

\* lines 184 and 187
TreeFoot == << <<"\n'''\n\n">>, <<"# File Contents\n\n">> >>

\* lines 201-202
BlockHead(rec) ==
    << <<"'">> \o RelStr(rec.relative_path) \o <<"'\n">>,
       <<"'''">> \o FileExt(Name(rec.file_path)) \o <<"\n">> >>

\* line 213
BlockFoot == <<"\n'''\n\n">>

\* lines 204-211: the text written for a file of content c that can be opened
BlockBody(c) ==
    IF is_binary_file(c) THEN <<"/* Binary file not shown */">>
    ELSE IF c.bad
         THEN <<"/* Error reading file: ">> \o ErrorText(ByteLen(c.text))
                  \o <<" */">>
    ELSE c.text

\* the directories output_dir.mkdir(parents=True, exist_ok=True) makes sure of
OutDirs == {SubSeq(outRel.rel, 1, k) : k \in 1..Len(outRel.rel)}

Terminal == {"invalid", "walk_failed", "read_failed", "done"}

\* the output file goes on as s
Goes(s) ==
    /\ f' = [pending |-> s.pending, buffer |-> s.buffer]
    /\ disk' = s.disk

\* an exception leaves the with block of line 178, or the block ends: the
\* output file is closed with all that was written to s
Ends(s) ==
    /\ f' = Closed
    /\ disk' = close(s)

\* lines 256-258: the input directory is missing or not a directory
MainInvalid ==
    /\ pc = "main"
    /\ ~is_dir(<<>>)
    /\ pc' = "invalid"
    /\ UNCHANGED <<fs, loc, rules, recursive, treeRes, filesRes, outRel,
                   f, disk, exists, todo, blocks, run, out1>>

\* lines 173-178: the output directory is made and the output file opened
\* for writing, which creates or truncates it
OpenOutput ==
    /\ pc = "main"
    /\ is_dir(<<>>)
    /\ fs' = IF outRel.inside
             THEN [p \in DOMAIN fs \cup OutDirs \cup {ArtPath} |->
                     IF p = ArtPath THEN [kind |-> "file", mode |-> "text"]
                     ELSE IF p \in DOMAIN fs THEN fs[p]
                     ELSE [kind |-> "dir", mode |-> "ok"]]
             ELSE fs
    /\ exists' = TRUE
    /\ disk' = Opened(disk)
    /\ f' = Closed
    /\ pc' = "tree"
    /\ UNCHANGED <<loc, rules, recursive, treeRes, filesRes, outRel, todo,
                   blocks, run, out1>>

\* lines 180-187: the tree section; generate_tree is called after the first
\* two writes, and a listing that raises leaves the with block
WriteTree ==
    /\ pc = "tree"
    /\ LET s1 == WriteAll(File, TreeHead)
           t == generate_tree(loc, rules, recursive)
           s2 == WriteAll(s1, <<JoinLines(t.lines)>> \o TreeFoot)
       IN  /\ treeRes' = Returned(t)
           /\ IF t.ok THEN Goes(s2) ELSE Ends(s1)
           /\ pc' = IF t.ok THEN "collect" ELSE "walk_failed"
    /\ UNCHANGED <<fs, loc, rules, recursive, filesRes, outRel, exists, todo,
                   blocks, run, out1>>

\* lines 190-195
Collect ==
    /\ pc = "collect"
    /\ LET c == collect_files(loc, rules, recursive)
       IN  /\ filesRes' = Returned(c)
           /\ todo' = c.files
           /\ IF c.ok THEN UNCHANGED <<f, disk>> ELSE Ends(File)
           /\ pc' = IF c.ok THEN "files" ELSE "walk_failed"
    /\ UNCHANGED <<fs, loc, rules, recursive, treeRes, outRel, exists,
                   blocks, run, out1>>

\* lines 198-213 for one file: is_binary_file catches UnicodeDecodeError
\* only, so a file that cannot be opened raises out of create_markdown; the
\* artifact is read as the file holds it after the two writes of the label
WriteFile ==
    /\ pc = "files"
    /\ todo # <<>>
    /\ LET rec == Head(todo)
           s1 == WriteAll(File, BlockHead(rec))
           c == Content(rec.relative_path, s1.disk)
           s2 == WriteAll(s1, <<BlockBody(c), BlockFoot>>)
       IN  IF ~Openable(rec.relative_path)
           THEN /\ Ends(s1)
                /\ pc' = "read_failed"
                /\ UNCHANGED <<todo, blocks>>
           ELSE /\ Goes(s2)
                /\ todo' = Tail(todo)
                /\ blocks' = blocks + 1
                /\ pc' = "files"
    /\ UNCHANGED <<fs, loc, rules, recursive, treeRes, filesRes, outRel,
                   exists, run, out1>>

\* the end of the with block and line 215
Finish ==
    /\ pc = "files"
    /\ todo = <<>>
    /\ Ends(File)
    /\ pc' = "done"
    /\ UNCHANGED <<fs, loc, rules, recursive, treeRes, filesRes, outRel,
                   exists, todo, blocks, run, out1>>

\* the program is run once more, with the same arguments
Rerun ==
    /\ pc \in Terminal
    /\ run = 1
    /\ run' = 2
    /\ out1' = [exists |-> exists, disk |-> disk]
    /\ pc' = "main"
    /\ treeRes' = NoTree
    /\ filesRes' = NoFiles
    /\ todo' = <<>>
    /\ blocks' = 0
    /\ UNCHANGED <<fs, loc, rules, recursive, outRel, f, disk, exists>>

\* a missing input path, and a regular file in its place
InvalidRoots == {<<>>, (<<>> :> [kind |-> "file", mode |-> "text"])}

\* the rule sets of the runs: none, and the exclude regex "/a$"
RunRules ==
    {NoRules, [NoRules EXCEPT !.exclude_regexes = <<<<"/", "a", "$">>>>]}

\* where the output directory may lie for the given tree: outside, the input
\* directory itself, or its subdirectory a (made by the run if missing)
OutputDirs(tree) ==
    {Outside} \cup
    {[inside |-> TRUE, rel |-> d] : d \in
        {d \in {<<>>, <<<<"a">>>>} :
            /\ <<>> \in DOMAIN tree /\ tree[<<>>].kind = "dir"
            /\ d \in DOMAIN tree => tree[d].kind = "dir"}}

InitRun ==
    /\ fs \in FileSystems({"ok", "noperm"},
                          {"text", "long", "binary", "noperm", "undecodable"})
             \cup InvalidRoots
    /\ loc = <<<<"t">>, <<"r">>>>
    /\ rules \in RunRules
    /\ recursive \in BOOLEAN
    /\ treeRes = NoTree
    /\ filesRes = NoFiles
    /\ pc = "main"
    /\ outRel \in OutputDirs(fs)
    /\ f = Closed
    /\ disk = <<>>
    /\ exists = FALSE
    /\ todo = <<>>
    /\ blocks = 0
    /\ run = 1
    /\ out1 = NoArtifact

NextRun ==
    \/ MainInvalid
    \/ OpenOutput
    \/ WriteTree
    \/ Collect
    \/ WriteFile
    \/ Finish
    \/ Rerun

SpecRun == InitRun /\ [][NextRun]_vars

(***************************************************************************)
(* Properties of the selection.                                            *)
(***************************************************************************)
\* the entries that have a line in the returned tree (the root line apart)
TreeShown == {treeRes.lines[k].item : k \in 2..Len(treeRes.lines)}

\* the root-relative paths of the returned file list
FilesCollected ==
    {filesRes.files[k].relative_path : k \in 1..Len(filesRes.files)}

\* the path string of entry p, as the selector is given it, matches an
\* exclude pattern
Excluded(p) == ExcludeHit(AbsStr(loc \o p), rules)

Included(p) == IncludeHit(AbsStr(loc \o p), rules)

NoIncludes == rules.include_patterns = <<>> /\ rules.include_regexes = <<>>

\* the directories above entry p, the root apart
DirsAbove(p) == {SubSeq(p, 1, k) : k \in 1..(Len(p) - 1)}

\* C1: an entry whose path string matches an exclude wildcard or an exclude
\* regex has no line in the tree generate_tree returns and is not in the
\* list collect_files returns, whatever the include patterns are.
C1_ExcludeDominates ==
    /\ treeRes.called => \A p \in TreeShown : ~Excluded(p)
    /\ filesRes.called => \A p \in FilesCollected : ~Excluded(p)

\* C1 witness: both results are there, an entry matches an exclude and an
\* include pattern at once, and other entries are listed.
C1_Witness ==
    /\ treeRes.called /\ filesRes.called
    /\ \E p \in DOMAIN fs : p # <<>> /\ Excluded(p) /\ Included(p)
    /\ TreeShown # {} /\ FilesCollected # {}

\* C2 as claimed: with both include lists empty, every file below the root
\* that does not itself match an exclude pattern is in the list
\* collect_files returns.
C2_EveryFileNotExcluded ==
    (filesRes.called /\ filesRes.ok /\ NoIncludes) =>
        \A p \in DOMAIN fs : (is_file(p) /\ ~Excluded(p)) => p \in FilesCollected

\* the walk of collect_files is meant to reach the directory that holds file
\* p: no directory above p (below the root) is pruned in recursive mode, and
\* p lies directly in the root otherwise
Reached(p) ==
    IF recursive
    THEN \A d \in DirsAbove(p) : ~Excluded(d)
    ELSE Len(p) = 1

\* C2 amended: with both include lists empty, every file that does not match
\* an exclude pattern and that the walk reaches (recursive: no directory
\* above it, below the root, matches an exclude pattern; not recursive: it
\* lies directly in the root) is in the list collect_files returns.
C2_EveryReachedFile ==
    (filesRes.called /\ filesRes.ok /\ NoIncludes) =>
        \A p \in DOMAIN fs :
            (is_file(p) /\ ~Excluded(p) /\ Reached(p)) => p \in FilesCollected

\* C2 witness: no include pattern, recursive, a collected file beside a
\* file that matches no exclude pattern and that an excluded directory hides.
C2_Witness ==
    /\ filesRes.called /\ filesRes.ok /\ NoIncludes /\ recursive
    /\ FilesCollected # {}
    /\ \E p \in DOMAIN fs :
          is_file(p) /\ ~Excluded(p) /\ ~Reached(p) /\ p \notin FilesCollected

\* C3: a file has a line in the tree generate_tree returns if and only if it
\* is in the list collect_files returns for the same arguments.
C3_SameFiles ==
    (treeRes.called /\ treeRes.ok /\ filesRes.called /\ filesRes.ok) =>
        {p \in TreeShown : is_file(p)} = FilesCollected

\* C4: when recursive is false the tree shows the root's own children only:
\* no entry of a subdirectory has a line.
C4_BareLeaves ==
    (treeRes.called /\ treeRes.ok /\ ~recursive) =>
        \A p \in TreeShown : Len(p) = 1

\* C5: the selection depends on the root-relative paths only: the same tree
\* under another location gives the same tree entries and the same files.
C5_LocationIndependent ==
    \A other \in Locations :
        /\ (treeRes.called /\ treeRes.ok) =>
              LET t == generate_tree(other, rules, recursive)
              IN  {t.lines[k].item : k \in 2..Len(t.lines)} = TreeShown
        /\ (filesRes.called /\ filesRes.ok) =>
              LET c == collect_files(other, rules, recursive)
              IN  {c.files[k].relative_path : k \in 1..Len(c.files)}
                      = FilesCollected

\* the directories neither excluded themselves nor below an excluded one
NotPruned ==
    {d \in DOMAIN fs :
        is_dir(d) /\ (d # <<>> => ~Excluded(d))
                  /\ \A a \in DirsAbove(d) : ~Excluded(a)}

\* C10: in directory-scan mode should_process_path is true exactly when no
\* exclude pattern matches, whatever the include lists hold; and in recursive
\* mode collect_files and generate_tree list a directory if and only if
\* neither it nor a directory above it (below the root) matches an exclude
\* pattern.
C10_PrunedByExclusionOnly ==
    /\ (treeRes.called /\ filesRes.called) =>
          \A p \in DOMAIN fs \ {<<>>} :
              should_process_path(loc \o p, rules, TRUE) <=> ~Excluded(p)
    /\ (filesRes.called /\ recursive) => filesRes.listed = NotPruned
    /\ (treeRes.called /\ recursive) => treeRes.listed = NotPruned

\* C10 witness: recursive, include patterns are set, a subdirectory that
\* matches none of them is listed, and an excluded directory with entries of
\* its own is not.
C10_Witness ==
    /\ treeRes.called /\ filesRes.called /\ recursive /\ ~NoIncludes
    /\ \E d \in filesRes.listed : d # <<>> /\ ~Included(d) /\ d \in treeRes.listed
    /\ \E d \in DOMAIN fs :
          /\ is_dir(d) /\ Excluded(d) /\ iterdir(d) # {}
          /\ d \notin filesRes.listed /\ d \notin treeRes.listed

(***************************************************************************)
(* Properties of the error handling and of whole runs.                     *)
(***************************************************************************)
\* C6: after a run that a fatal error ended (the input root missing or not a
\* directory, or a directory that could not be listed) there is no artifact
\* in the output directory.
C6_NoArtifactAfterFatal ==
    pc \in {"invalid", "walk_failed"} => ~exists

\* the directories the walk of collect_files comes to
WalkComesTo ==
    IF recursive
    THEN {d \in DOMAIN fs :
            /\ is_dir(d)
            /\ d # <<>> => ~Excluded(d)
            /\ \A a \in DirsAbove(d) : Listable(a) /\ ~Excluded(a)
            /\ d # <<>> => Listable(<<>>)}
    ELSE {<<>>}

\* C7: collect_files fails whenever the root or a directory the walk comes
\* to cannot be listed, in recursive and in non-recursive mode.
C7_UnlistableAborts ==
    (filesRes.called /\ \E d \in WalkComesTo : ~Listable(d)) => ~filesRes.ok

\* C8: once the files are collected no problem with a file ends the run: it
\* ends done, with one closed block for every collected file.
C8_PerFileIsolated ==
    (pc \in Terminal /\ filesRes.called /\ filesRes.ok) =>
        (pc = "done" /\ blocks = Len(filesRes.files))

\* C9: a second run with the same arguments on the file system the first run
\* left leaves the artifact as the first run left it, also when the output
\* directory lies in the input directory.
C9_Idempotent ==
    (run = 2 /\ pc \in Terminal) => [exists |-> exists, disk |-> disk] = out1

\* C9 witness: the second run is done, the output directory is the input
\* directory, a long text file has its block before that of the artifact, so
\* that the artifact was read while it held a part of the document, and the
\* artifact has its line in the tree.
C9_Witness ==
    /\ run = 2 /\ pc = "done" /\ outRel.inside /\ outRel.rel = <<>>
    /\ ArtPath \in TreeShown /\ ArtPath \in FilesCollected
    /\ \E p \in FilesCollected : p # ArtPath /\ fs[p].mode = "long"
    /\ blocks >= 2 /\ disk # <<>> /\ disk = out1.disk

====
